---------------------------- MODULE Spec2Model ----------------------------
(***************************************************************************)
(* A model of seed (src/main.cpp): the tokenizer next_token, the Lexer     *)
(* with its one-token lookahead, the recursive-descent parser expr/parse   *)
(* that fills the AST arena, the position tracker and the DOT renderer.    *)
(*                                                                         *)
(* Bytes are one-character strings.  Offsets into the source are 0-based,  *)
(* as the pointers of the code are; node handles are 0-based indices into  *)
(* the arena, as HomogenousVector::add returns them.                       *)
(***************************************************************************)
EXTENDS Integers, Sequences, FiniteSets, TLC

\* ------------------------------------------------------------------ bytes
ChNul       == "NUL"
ChLParen    == "("
ChRParen    == ")"
ChDQuote    == "\""
ChSQuote    == "'"
ChBackslash == "\\"
ChSpace     == " "
ChNewline   == "\n"
ChTab       == "\t"
ChVTab      == "VT"
ChFormFeed  == "\f"

\* What a read of an address outside the mapped memory yields: the process
\* is killed.
Fault == "FAULT"

\* ----------------------------------------------------------------- bounds
\* Every file of at most MaxLen bytes over Alphabet is an input.
MaxLen == 3
\* The number of readable bytes of foreign memory after the buffer; the
\* byte after them is unmapped.
GarbageLen == 2

Alphabet == {ChLParen, ChRParen, "a", ChSpace, ChNewline, ChDQuote, ChBackslash}

\* The values foreign memory may hold, one per class the tokenizer tells
\* apart.
GarbageBytes == {ChLParen, ChRParen, ChSpace, ChNul, "z"}
PreBytes == {ChBackslash, "z"}

\* --------------------------------------------------------------- in_group
\* is_whitespace, were '\t' missing from its group.
IsWhitespaceNoTab(c) == c \in {ChSpace, ChNewline, ChVTab, ChFormFeed}

\* is_whitespace: in_group(c, ' ', '\n', '\t', '\v', '\f').
is_whitespace(c) == c \in {ChSpace, ChNewline, ChTab, ChVTab, ChFormFeed}

\* ----------------------------------------------------------------- memory
\* read_file: a std::string of filesize + 1 NUL bytes, the file read over
\* the first filesize of them; c_str() adds the string's own terminator.
\* So the byte at offset Len(file) is the terminator and the one after it
\* is NUL too.  What lies before offset 0 and after these two bytes is
\* not the program's: w.pre and w.post hold it.
Terminator(file) == Len(file)

BufferEnd(file) == Len(file) + 2

Mapped(file, i) == i >= -1 /\ i < BufferEnd(file) + GarbageLen

Byte(file, w, i) ==
    IF ~Mapped(file, i) THEN Fault
    ELSE IF i = -1 THEN w.pre
    ELSE IF i < Len(file) THEN file[i + 1]
    ELSE IF i < BufferEnd(file) THEN ChNul
    ELSE w.post[i - BufferEnd(file) + 1]

\* The bytes of a View, as operator<< writes them.
RECURSIVE ViewText(_, _, _, _)
ViewText(file, w, begin, length) ==
    IF length <= 0 THEN <<>>
    ELSE <<Byte(file, w, begin)>> \o ViewText(file, w, begin + 1, length - 1)

\* ------------------------------------------------------------------ tokens
TOKEN_NONE       == "TOKEN_NONE"
TOKEN_EOF        == "TOKEN_EOF"
TOKEN_LPAREN     == "TOKEN_LPAREN"
TOKEN_RPAREN     == "TOKEN_RPAREN"
TOKEN_STRING     == "TOKEN_STRING"
TOKEN_IDENTIFIER == "TOKEN_IDENTIFIER"

\* Token{}: a null view and type 0.  The model writes the null pointer -1.
NoToken == [type |-> TOKEN_NONE, begin |-> -1, length |-> 0, text |-> <<>>]

\* A token carries, beside its view, the bytes the view denotes: they do
\* not change once read.
Tok(file, w, type, begin, length) ==
    [type |-> type, begin |-> begin, length |-> length,
     text |-> ViewText(file, w, begin, length)]

\* do { ++ptr; } while (*ptr != delim and *ptr);  p is ptr after the first
\* increment; the result is ptr when the loop ends (or faults).
RECURSIVE StringScan(_, _, _, _)
StringScan(file, w, p, delim) ==
    LET c == Byte(file, w, p)
    IN  IF c = Fault \/ c = delim \/ c = ChNul THEN p
        ELSE StringScan(file, w, p + 1, delim)

\* do { ++ptr; } while (not is_whitespace(*ptr) and not in_group(*ptr, '(', ')'));
IdentStops(c) == c = Fault \/ is_whitespace(c) \/ c \in {ChLParen, ChRParen}

RECURSIVE IdentScan(_, _, _)
IdentScan(file, w, p) ==
    IF IdentStops(Byte(file, w, p)) THEN p ELSE IdentScan(file, w, p + 1)

\* do { ++ptr; } while (is_whitespace(*ptr));
RECURSIVE WhitespaceScan(_, _, _)
WhitespaceScan(file, w, p) ==
    IF is_whitespace(Byte(file, w, p)) THEN WhitespaceScan(file, w, p + 1) ELSE p

\* The length of a string's view, were the closing quote left in it.
StringLengthKeepsQuote(begin, ptr) == ptr - begin

\* vlen = ptr - vptr - 1, with vptr one past the opening quote and ptr one
\* past the closing one.
StringLength(begin, ptr) == ptr - begin - 1

\* The range of the offsets read.
Min(a, b) == IF a < b THEN a ELSE b
Max(a, b) == IF a > b THEN a ELSE b

\* next_token(start, ptr): the token, the advanced cursor, the lowest and
\* highest offsets read, and whether a read faulted.  (The code's last
\* branch, the error "unexpected character", is never taken: a byte is
\* whitespace or it is not.)
RECURSIVE next_token(_, _, _)
next_token(file, w, ptr) ==
    LET c == Byte(file, w, ptr)
        R(tok, p, lo, hi, fault) ==
            [tok |-> tok, ptr |-> p, lo |-> lo, hi |-> hi, fault |-> fault]
    IN  IF c = Fault THEN R(NoToken, ptr, ptr, ptr, TRUE)
        ELSE IF c = ChNul THEN R(Tok(file, w, TOKEN_EOF, ptr, 1), ptr, ptr, ptr, FALSE)
        ELSE IF c = ChLParen THEN R(Tok(file, w, TOKEN_LPAREN, ptr, 1), ptr + 1, ptr, ptr, FALSE)
        ELSE IF c = ChRParen THEN R(Tok(file, w, TOKEN_RPAREN, ptr, 1), ptr + 1, ptr, ptr, FALSE)
        ELSE IF c \in {ChDQuote, ChSQuote} /\ Byte(file, w, ptr - 1) = Fault
        THEN R(NoToken, ptr, ptr - 1, ptr, TRUE)
        ELSE IF c \in {ChDQuote, ChSQuote} /\ Byte(file, w, ptr - 1) # ChBackslash
        THEN LET e == StringScan(file, w, ptr + 1, c)
             IN  IF Byte(file, w, e) = Fault
                 THEN R(NoToken, e, ptr - 1, e, TRUE)
                 ELSE R(Tok(file, w, TOKEN_STRING, ptr + 1, StringLength(ptr + 1, e + 1)),
                        e + 1, ptr - 1, e, FALSE)
        ELSE IF ~is_whitespace(c)
        THEN LET e == IdentScan(file, w, ptr + 1)
                 vptr == IF c = ChBackslash THEN ptr + 1 ELSE ptr
                 lo == IF c \in {ChDQuote, ChSQuote} THEN ptr - 1 ELSE ptr
             IN  IF Byte(file, w, e) = Fault
                 THEN R(NoToken, e, lo, e, TRUE)
                 ELSE R(Tok(file, w, TOKEN_IDENTIFIER, vptr, e - vptr), e, lo, e, FALSE)
        ELSE LET e == WhitespaceScan(file, w, ptr + 1)
                 r == next_token(file, w, e)
             IN  R(r.tok, r.ptr, Min(ptr, r.lo), Max(e, r.hi), r.fault)

\* --------------------------------------------------------------- position
\* position(ptr, end): while (ptr++ != end) { if (*ptr == '\n') ... }: the
\* byte tested is the one after the increment.  The result carries whether
\* a read faulted.
RECURSIVE PositionFrom(_, _, _, _, _, _)
PositionFrom(file, w, p, end, line, column) ==
    IF p = end THEN [line |-> line, column |-> column, fault |-> FALSE]
    ELSE LET c == Byte(file, w, p + 1)
         IN  IF c = Fault THEN [line |-> line, column |-> column, fault |-> TRUE]
             ELSE IF c = ChNewline THEN PositionFrom(file, w, p + 1, end, line + 1, 1)
             ELSE PositionFrom(file, w, p + 1, end, line, column + 1)

position(file, w, end) == PositionFrom(file, w, 0, end, 1, 1)

\* ------------------------------------------------------------------ inputs
\* "(add (mul 2 3) \"x\")"
SampleAdd ==
    <<"(", "a", "d", "d", " ", "(", "m", "u", "l", " ", "2", " ", "3", ")",
      " ", ChDQuote, "x", ChDQuote, ")">>
\* "(\"a (b) c\")"
SampleQuoted ==
    <<"(", ChDQuote, "a", " ", "(", "b", ")", " ", "c", ChDQuote, ")">>
\* "()a"
SampleEmptyThenAtom == <<"(", ")", "a">>
\* "(a ())(b)()"
SampleEmptyChild ==
    <<"(", "a", " ", "(", ")", ")", "(", "b", ")", "(", ")">>
\* "(a (b (c d) e) () 'f g')(h)"
SampleNested ==
    <<"(", "a", " ", "(", "b", " ", "(", "c", " ", "d", ")", " ", "e", ")",
      " ", "(", ")", " ", ChSQuote, "f", " ", "g", ChSQuote, ")", "(", "h", ")">>
\* "(a b", "(a (b)", "(\"a\"": forms the input ends in.
SampleOpenAtom == <<"(", "a", " ", "b">>
SampleOpenList == <<"(", "a", " ", "(", "b", ")">>
SampleOpenString == <<"(", ChDQuote, "a", ChDQuote>>
\* "\n(a\n\n b" : an error on the third line.
SampleLines == <<ChNewline, "(", "a", ChNewline, ChNewline, " ", "b">>

Samples ==
    {SampleAdd, SampleQuoted, SampleEmptyThenAtom, SampleEmptyChild,
     SampleNested, SampleOpenAtom, SampleOpenList, SampleOpenString,
     SampleLines}

BoundedFiles == UNION {[1..n -> Alphabet] : n \in 0..MaxLen}

Inputs == BoundedFiles \cup Samples

\* Well-formed inputs with their whitespace runs left open: WS marks a run.
WS == "WS"
TemplatePair == <<"(", "a", WS, "b", ")">>
TemplateNested ==
    <<"(", "a", WS, "(", "b", WS, ChDQuote, "c", " ", "d", ChDQuote, ")", WS, "e", ")">>
TemplateRoots == <<"(", WS, "a", WS, ")", WS, "(", WS, ")">>
Templates == {TemplatePair, TemplateNested, TemplateRoots}

WsRuns ==
    {<<ChSpace>>, <<ChNewline>>, <<ChTab>>, <<ChVTab>>, <<ChFormFeed>>,
     <<ChSpace, ChSpace>>, <<ChNewline, ChTab>>,
     <<ChFormFeed, ChSpace, ChVTab, ChSpace>>}

\* The template with its first run replaced by r1 and the others by r2.
RECURSIVE Fill(_, _, _)
Fill(t, r1, r2) ==
    IF t = <<>> THEN <<>>
    ELSE IF Head(t) = WS THEN r1 \o Fill(Tail(t), r2, r2)
    ELSE <<Head(t)>> \o Fill(Tail(t), r1, r2)

\* Two inputs that differ only in their whitespace runs.
VariantPairs ==
    {<<Fill(t, a, b), Fill(t, c, c)>> :
        t \in Templates, a \in WsRuns, b \in WsRuns,
        c \in {<<ChSpace>>, <<ChNewline, ChTab>>}}

\* The files the program is run on, one run after the other.
Runs == {<<f>> : f \in Inputs} \cup VariantPairs

GarbageSeqs == [1..GarbageLen -> GarbageBytes]

\* ------------------------------------------------------------------- state
VARIABLES
    files,         \* the files still to run on (argv[1] of each run)
    history,       \* the finished runs: file, outcome, arena, roots
    file,          \* the bytes of the file read_file read
    wild,          \* the memory around the buffer, as far as it was read
    str,           \* Lexer::str, the scan cursor (offset from Lexer::start)
    lookahead,     \* Lexer::lookahead
    lo, hi,        \* the lowest and highest offset next_token has read
    tree,          \* the AST arena
    roots,         \* parse's roots
    stack,         \* the activations of expr: op and children of each
    pc,            \* where the program is
    err,           \* the message error() wrote to standard error
    node_counter,  \* render's node_counter
    graph_id,      \* render's graph_id
    out,           \* render's str: the statements appended so far
    rstack,        \* the activations of render_nodes visiting a List
    cur,           \* the arguments of the call of render_nodes being made
    stdout         \* what was written to standard output

vars ==
    <<files, history, file, wild, str, lookahead, lo, hi, tree, roots, stack,
      pc, err, node_counter, graph_id, out, rstack, cur, stdout>>

lexVars == <<str, lookahead, lo, hi, wild>>
astVars == <<tree, roots, stack>>
renderVars == <<node_counter, graph_id, out, rstack, cur, stdout>>
runVars == <<files, history, file>>

\* The messages of expr's errors (the backquotes of the code's texts left out).
ExpectedOpen == "expected ("
ExpectedClose == "expected )"
ExpectedOperator == "expected identifer or string"

NoError == [line |-> 0, column |-> 0, msg |-> ""]
NoCall == [node |-> -1, parent_id |-> -1]
WildUnread ==
    [pre |-> "z", post |-> [i \in 1..GarbageLen |-> "z"],
     preRead |-> FALSE, postRead |-> FALSE]

Terminal == {"done", "error", "crash"}

Init ==
    /\ files \in Runs
    /\ history = <<>>
    /\ file = <<>>
    /\ wild = WildUnread
    /\ str = 0
    /\ lookahead = NoToken
    /\ lo = 0
    /\ hi = 0
    /\ tree = <<>>
    /\ roots = <<>>
    /\ stack = <<>>
    /\ pc = "start"
    /\ err = NoError
    /\ node_counter = 0
    /\ graph_id = 0
    /\ out = <<>>
    /\ rstack = <<>>
    /\ cur = NoCall
    /\ stdout = <<>>

\* ------------------------------------------------------------ foreign memory
\* The contents foreign memory may turn out to have: what was read stays.
Choices(wd) ==
    {[pre |-> p, post |-> g, preRead |-> wd.preRead, postRead |-> wd.postRead] :
        p \in (IF wd.preRead THEN {wd.pre} ELSE PreBytes),
        g \in (IF wd.postRead THEN {wd.post} ELSE GarbageSeqs)}

\* wd after reads of the offsets from l to h found the contents w.
Materialise(wd, w, f, l, h) ==
    [pre |-> IF l < 0 THEN w.pre ELSE wd.pre,
     preRead |-> wd.preRead \/ l < 0,
     post |-> IF h >= BufferEnd(f) THEN w.post ELSE wd.post,
     postRead |-> wd.postRead \/ h >= BufferEnd(f)]

\* -------------------------------------------------------------------- main
\* main: read_file and an empty arena, in a fresh process.
Main ==
    /\ pc \in Terminal \cup {"start"}
    /\ files # <<>>
    /\ file' = Head(files)
    /\ files' = Tail(files)
    /\ history' = IF pc = "start" THEN history
                  ELSE Append(history, [file |-> file, pc |-> pc, tree |-> tree,
                                        roots |-> roots, stdout |-> stdout])
    /\ wild' = WildUnread
    /\ str' = 0
    /\ lookahead' = NoToken
    /\ lo' = 0
    /\ hi' = 0
    /\ tree' = <<>>
    /\ roots' = <<>>
    /\ stack' = <<>>
    /\ err' = NoError
    /\ node_counter' = 0
    /\ graph_id' = 0
    /\ out' = <<>>
    /\ rstack' = <<>>
    /\ cur' = NoCall
    /\ stdout' = <<>>
    /\ pc' = "lexer"

\* The contents to tell apart when next_token runs from p: if its run on wd
\* reads nothing that is still unread, no other contents changes it.
Worlds(wd, f, p) ==
    LET r == next_token(f, wd, p)
        l == r.lo
        h == Max(r.hi, r.ptr)
    IN  IF (l < 0 /\ ~wd.preRead) \/ (h >= BufferEnd(f) /\ ~wd.postRead)
        THEN Choices(wd)
        ELSE {wd}

\* ------------------------------------------------------------------- Lexer
\* Lexer::advance: lookahead = next_token(start, str), with r its result
\* under the memory contents w; first: the constructor's call, before which
\* nothing was read.
LexerAdvance(w, r, first) ==
    /\ lookahead' = IF r.fault THEN lookahead ELSE r.tok
    /\ str' = r.ptr
    /\ lo' = IF first THEN r.lo ELSE Min(lo, r.lo)
    /\ hi' = IF first THEN r.hi ELSE Max(hi, r.hi)

\* error(lex.position(), msg): the position is computed from the cursor
\* after the advance; a faulting read kills the process first.
Error(w, r, msg) ==
    LET p == position(file, w, r.ptr)
    IN  /\ wild' = Materialise(wild, w, file, r.lo, Max(r.hi, r.ptr))
        /\ IF p.fault
           THEN pc' = "crash" /\ err' = err
           ELSE pc' = "error" /\ err' = [line |-> p.line, column |-> p.column, msg |-> msg]

Crash(w, r) ==
    /\ pc' = "crash"
    /\ wild' = Materialise(wild, w, file, r.lo, r.hi)
    /\ err' = err

Reads(w, r) == wild' = Materialise(wild, w, file, r.lo, r.hi)

\* Lexer::Lexer: start and str at the buffer, then advance().
LexerInit ==
    /\ pc = "lexer"
    /\ \E w \in Worlds(wild, file, 0) :
        LET r == next_token(file, w, 0)
        IN  /\ LexerAdvance(w, r, TRUE)
            /\ IF r.fault THEN Crash(w, r)
               ELSE Reads(w, r) /\ pc' = "parse" /\ err' = err
    /\ UNCHANGED <<astVars, renderVars, runVars>>


\* --------------------------------------------------------------------- AST
ListNode(op, children) == [kind |-> "List", tok |-> op, children |-> children]
IdentiferNode(tok) == [kind |-> "Identifer", tok |-> tok, children |-> <<>>]
StringNode(tok) == [kind |-> "String", tok |-> tok, children |-> <<>>]
EmptyNode == [kind |-> "Empty", tok |-> NoToken, children |-> <<>>]

\* add, were it to return size().
AddHandleOneBased(t) == Len(t)

\* HomogenousVector::add: size() - 1 once emplace_back has appended the node.
AddHandle(t) == Len(t) - 1

\* An activation of expr: its locals op and children.
Frame(op, children) == [op |-> op, children |-> children]

\* A handle emplace_back'ed to children or to roots.
EmplaceBack(children, h) == Append(children, h)

\* expr returns h: to the expr that called it in its loop, which
\* emplace_back's it to its children, or to parse, which emplace_back's it
\* to roots.  s is the stack with the returning activation on top.
Return(s, h) ==
    LET rest == SubSeq(s, 1, Len(s) - 1)
    IN  IF rest = <<>>
        THEN /\ roots' = EmplaceBack(roots, h)
             /\ stack' = rest
             /\ pc' = "parse"
        ELSE /\ roots' = roots
             /\ stack' = [rest EXCEPT ![Len(rest)].children = EmplaceBack(@, h)]
             /\ pc' = "expr_loop"

\* ------------------------------------------------------------------- parse
\* parse: while (lex.peek() != TOKEN_EOF) roots.emplace_back(expr(lex, tree));
ParseCall ==
    /\ pc = "parse"
    /\ lookahead.type # TOKEN_EOF
    /\ stack' = Append(stack, Frame(NoToken, <<>>))
    /\ pc' = "expr_open"
    /\ UNCHANGED <<tree, roots, err, lexVars, renderVars, runVars>>

\* parse returns roots; main calls render.
ParseReturn ==
    /\ pc = "parse"
    /\ lookahead.type = TOKEN_EOF
    /\ pc' = "render"
    /\ UNCHANGED <<astVars, err, lexVars, renderVars, runVars>>

\* The start of a form, were expr to take a bare identifier for one too.
OpensFormOrAtom(tok) == tok.type \in {TOKEN_LPAREN, TOKEN_IDENTIFIER}

\* What expr takes for the start of a form: lex.advance() != TOKEN_LPAREN
\* is an error.
OpensForm(tok) == tok.type = TOKEN_LPAREN

\* expr: if (lex.advance() != TOKEN_LPAREN) error(...): expected `(`.
ExprOpen ==
    /\ pc = "expr_open"
    /\ \E w \in Worlds(wild, file, str) :
        LET r == next_token(file, w, str)
        IN  /\ LexerAdvance(w, r, FALSE)
            /\ IF r.fault THEN Crash(w, r)
               ELSE IF ~OpensForm(lookahead)
               THEN Error(w, r, ExpectedOpen)
               ELSE Reads(w, r) /\ pc' = "expr_op" /\ err' = err
    /\ UNCHANGED <<astVars, renderVars, runVars>>

\* expr: op = lex.advance(); `)` makes the form Empty, anything but an
\* identifier or a string is an error.
ExprOperator ==
    /\ pc = "expr_op"
    /\ \E w \in Worlds(wild, file, str) :
        LET r == next_token(file, w, str)
            op == lookahead
        IN  /\ LexerAdvance(w, r, FALSE)
            /\ IF r.fault THEN Crash(w, r) /\ UNCHANGED astVars
               ELSE IF op.type = TOKEN_RPAREN
               THEN /\ Reads(w, r)
                    /\ err' = err
                    /\ tree' = Append(tree, EmptyNode)
                    /\ Return(stack, AddHandle(tree'))
               ELSE IF op.type \notin {TOKEN_IDENTIFIER, TOKEN_STRING}
               THEN Error(w, r, ExpectedOperator) /\ UNCHANGED astVars
               ELSE /\ Reads(w, r)
                    /\ err' = err
                    /\ stack' = [stack EXCEPT ![Len(stack)].op = op]
                    /\ pc' = "expr_loop"
                    /\ UNCHANGED <<tree, roots>>
    /\ UNCHANGED <<renderVars, runVars>>

\* expr's loop, lookahead `(`: children.emplace_back(expr(lex, tree)).
ExprChildList ==
    /\ pc = "expr_loop"
    /\ lookahead.type = TOKEN_LPAREN
    /\ stack' = Append(stack, Frame(NoToken, <<>>))
    /\ pc' = "expr_open"
    /\ UNCHANGED <<tree, roots, err, lexVars, renderVars, runVars>>

\* expr's loop, lookahead an identifier:
\* children.emplace_back(tree.add<Identifer>(lex.advance())).
ExprChildIdentifer ==
    /\ pc = "expr_loop"
    /\ lookahead.type = TOKEN_IDENTIFIER
    /\ \E w \in Worlds(wild, file, str) :
        LET r == next_token(file, w, str)
        IN  /\ LexerAdvance(w, r, FALSE)
            /\ IF r.fault THEN Crash(w, r) /\ UNCHANGED astVars
               ELSE /\ Reads(w, r)
                    /\ err' = err
                    /\ tree' = Append(tree, IdentiferNode(lookahead))
                    /\ stack' = [stack EXCEPT ![Len(stack)].children =
                                    EmplaceBack(@, AddHandle(tree'))]
                    /\ pc' = "expr_loop"
                    /\ roots' = roots
    /\ UNCHANGED <<renderVars, runVars>>

\* expr's loop, lookahead a string:
\* children.emplace_back(tree.add<String>(lex.advance())).
ExprChildString ==
    /\ pc = "expr_loop"
    /\ lookahead.type = TOKEN_STRING
    /\ \E w \in Worlds(wild, file, str) :
        LET r == next_token(file, w, str)
        IN  /\ LexerAdvance(w, r, FALSE)
            /\ IF r.fault THEN Crash(w, r) /\ UNCHANGED astVars
               ELSE /\ Reads(w, r)
                    /\ err' = err
                    /\ tree' = Append(tree, StringNode(lookahead))
                    /\ stack' = [stack EXCEPT ![Len(stack)].children =
                                    EmplaceBack(@, AddHandle(tree'))]
                    /\ pc' = "expr_loop"
                    /\ roots' = roots
    /\ UNCHANGED <<renderVars, runVars>>

\* expr after its loop (the lookahead is `)` or the end of input):
\* if (lex.advance() != TOKEN_RPAREN) error(...): expected `)`; then the
\* List of op and children is added and returned.
\* (With a lookahead of TOKEN_NONE the loop would spin; next_token never
\* returns one.)
ExprClose ==
    /\ pc = "expr_loop"
    /\ lookahead.type \in {TOKEN_RPAREN, TOKEN_EOF}
    /\ \E w \in Worlds(wild, file, str) :
        LET r == next_token(file, w, str)
            top == stack[Len(stack)]
        IN  /\ LexerAdvance(w, r, FALSE)
            /\ IF r.fault THEN Crash(w, r) /\ UNCHANGED astVars
               ELSE IF lookahead.type # TOKEN_RPAREN
               THEN Error(w, r, ExpectedClose) /\ UNCHANGED astVars
               ELSE /\ Reads(w, r)
                    /\ err' = err
                    /\ tree' = Append(tree, ListNode(top.op, top.children))
                    /\ Return(stack, AddHandle(tree'))
    /\ UNCHANGED <<renderVars, runVars>>

\* ------------------------------------------------------------------ render
\* The statements render appends to its string (the tabs of the
\* indentation left out).
DigraphOpen == [stmt |-> "digraph", id |-> -1, from |-> -1, label |-> <<>>]
ClusterOpen(g) == [stmt |-> "subgraph", id |-> g, from |-> -1, label |-> <<>>]
BlockClose == [stmt |-> "}", id |-> -1, from |-> -1, label |-> <<>>]
NodeDecl(id, tok) == [stmt |-> "node", id |-> id, from |-> -1, label |-> tok.text]
EdgeDecl(from, id) == [stmt |-> "edge", id |-> id, from |-> from, label |-> <<>>]

\* The counter, were self_id = node_counter to leave it as it is.
PostIncrementStuck(c) == c

\* int self_id = node_counter++: the counter after it.
PostIncrement(c) == c + 1

\* A node's declaration, were the edge never appended.
DeclareWithoutEdge(self_id, parent_id, tok) == <<NodeDecl(self_id, tok)>>

\* A node's declaration and, if (self_id != parent_id), the edge from its
\* parent.
Declare(self_id, parent_id, tok) ==
    <<NodeDecl(self_id, tok)>>
        \o (IF self_id # parent_id THEN <<EdgeDecl(parent_id, self_id)>> ELSE <<>>)

\* An activation of render_nodes's List visitor: the node, its self_id and
\* the index of the child its loop is at.
RenderFrame(node, self_id) == [node |-> node, self_id |-> self_id, next |-> 1]

\* render: node_counter = 0, the opening line, graph_id = 0.
RenderBegin ==
    /\ pc = "render"
    /\ node_counter' = 0
    /\ graph_id' = 0
    /\ out' = <<DigraphOpen>>
    /\ pc' = "clusters"
    /\ UNCHANGED <<rstack, cur, stdout, astVars, err, lexVars, runVars>>

\* render's loop calls render_cluster for the next root, which opens the
\* block and calls render_nodes with parent_id = node_counter.
RenderCluster ==
    /\ pc = "clusters"
    /\ graph_id < Len(roots)
    /\ out' = Append(out, ClusterOpen(graph_id))
    /\ cur' = [node |-> roots[graph_id + 1], parent_id |-> node_counter]
    /\ pc' = "visit"
    /\ UNCHANGED <<node_counter, graph_id, rstack, stdout, astVars, err, lexVars, runVars>>

\* render_nodes on a List: its declaration, then its loop over the children.
VisitList ==
    /\ pc = "visit"
    /\ tree[cur.node + 1].kind = "List"
    /\ LET self_id == node_counter
       IN  /\ node_counter' = PostIncrement(node_counter)
           /\ out' = out \o Declare(self_id, cur.parent_id, tree[cur.node + 1].tok)
           /\ rstack' = Append(rstack, RenderFrame(cur.node, self_id))
    /\ pc' = "children"
    /\ UNCHANGED <<graph_id, cur, stdout, astVars, err, lexVars, runVars>>

\* render_nodes on an Identifer or a String: its declaration.
VisitLeaf ==
    /\ pc = "visit"
    /\ tree[cur.node + 1].kind \in {"Identifer", "String"}
    /\ LET self_id == node_counter
       IN  /\ node_counter' = PostIncrement(node_counter)
           /\ out' = out \o Declare(self_id, cur.parent_id, tree[cur.node + 1].tok)
    /\ pc' = "returned"
    /\ UNCHANGED <<graph_id, rstack, cur, stdout, astVars, err, lexVars, runVars>>

\* render_nodes on an Empty: nothing.
VisitEmpty ==
    /\ pc = "visit"
    /\ tree[cur.node + 1].kind = "Empty"
    /\ pc' = "returned"
    /\ UNCHANGED <<renderVars, astVars, err, lexVars, runVars>>

\* The List visitor's loop: render_nodes(tree[child], ..., self_id, ...).
VisitChild ==
    /\ pc = "children"
    /\ LET top == rstack[Len(rstack)]
           children == tree[top.node + 1].children
       IN  /\ top.next <= Len(children)
           /\ cur' = [node |-> children[top.next], parent_id |-> top.self_id]
           /\ rstack' = [rstack EXCEPT ![Len(rstack)].next = @ + 1]
    /\ pc' = "visit"
    /\ UNCHANGED <<node_counter, graph_id, out, stdout, astVars, err, lexVars, runVars>>

\* The List visitor's loop is over: it returns.
VisitListReturn ==
    /\ pc = "children"
    /\ LET top == rstack[Len(rstack)]
       IN  top.next > Len(tree[top.node + 1].children)
    /\ rstack' = SubSeq(rstack, 1, Len(rstack) - 1)
    /\ pc' = "returned"
    /\ UNCHANGED <<node_counter, graph_id, out, cur, stdout, astVars, err, lexVars, runVars>>

\* Back in the List visitor's loop after a child: node_counter++.
AfterChild ==
    /\ pc = "returned"
    /\ rstack # <<>>
    /\ node_counter' = node_counter + 1
    /\ pc' = "children"
    /\ UNCHANGED <<graph_id, out, rstack, cur, stdout, astVars, err, lexVars, runVars>>

\* Back in render_cluster: node_counter++ and the closing line; render's
\* loop goes on: graph_id++.
ClusterClose ==
    /\ pc = "returned"
    /\ rstack = <<>>
    /\ node_counter' = node_counter + 1
    /\ out' = Append(out, BlockClose)
    /\ graph_id' = graph_id + 1
    /\ pc' = "clusters"
    /\ UNCHANGED <<rstack, cur, stdout, astVars, err, lexVars, runVars>>

\* render's loop is over: the closing line; main writes the string to
\* standard output and returns.
RenderEnd ==
    /\ pc = "clusters"
    /\ graph_id >= Len(roots)
    /\ out' = Append(out, BlockClose)
    /\ stdout' = out'
    /\ pc' = "done"
    /\ UNCHANGED <<node_counter, graph_id, rstack, cur, astVars, err, lexVars, runVars>>

Next ==
    \/ Main
    \/ LexerInit
    \/ ParseCall
    \/ ParseReturn
    \/ ExprOpen
    \/ ExprOperator
    \/ ExprChildList
    \/ ExprChildIdentifer
    \/ ExprChildString
    \/ ExprClose
    \/ RenderBegin
    \/ RenderCluster
    \/ VisitList
    \/ VisitLeaf
    \/ VisitEmpty
    \/ VisitChild
    \/ VisitListReturn
    \/ AfterChild
    \/ ClusterClose
    \/ RenderEnd

Spec == Init /\ [][Next]_vars

\* ------------------------------------------------------------------ claims
\* Where the program is once parse has returned.
RenderPcs == {"render", "clusters", "visit", "children", "returned"}
ParsedPcs == RenderPcs \cup {"done"}

Text(tok) == tok.text

\* Inputs that end inside a form whose operator was read:
\* "(a", "(a ", "(a b", "(a (b)", "(\"a\"".
UnterminatedForms ==
    {<<"(", "a">>, <<"(", "a", " ">>, SampleOpenAtom, SampleOpenList,
     SampleOpenString}

\* C1: a run on an input that ends inside a form whose operator was read
\* ends in expr's error "expected )" and in no other, parse does not return
\* from it, and nothing is written to standard output.
C1_UnterminatedFormRejected ==
    file \in UnterminatedForms =>
        /\ stdout = <<>>
        /\ pc \notin ParsedPcs
        /\ pc = "error" => err.msg = ExpectedClose

QuotedText == <<"a", " ", "(", "b", ")", " ", "c">>

\* C2 as claimed: parsing ("a (b) c") leaves one String leaf node in the
\* arena, with the text a (b) c.
C2_QuotedLeaf ==
    file = SampleQuoted /\ pc \in ParsedPcs =>
        /\ Cardinality({i \in 1..Len(tree) : tree[i].kind = "String"}) = 1
        /\ \A i \in 1..Len(tree) :
            tree[i].kind = "String" => Text(tree[i].tok) = QuotedText

\* C2 as amended: parsing ("a (b) c") leaves one node in the arena, a List
\* without children whose operator is the string token with the text
\* a (b) c (the quotes dropped, the blanks and parentheses kept), and that
\* node is the only root.
C2_QuotedOperator ==
    file = SampleQuoted /\ pc \in ParsedPcs =>
        /\ Len(tree) = 1
        /\ tree[1].kind = "List"
        /\ tree[1].children = <<>>
        /\ tree[1].tok.type = TOKEN_STRING
        /\ Text(tree[1].tok) = QuotedText
        /\ roots = <<0>>

\* C2's case: parse has returned from ("a (b) c").
C2_Witness == file = SampleQuoted /\ pc = "render"

\* C3 as claimed: parse on ()a returns two roots, an Empty node and then
\* the form of a, and raises no error.
C3_TwoRoots ==
    file = SampleEmptyThenAtom =>
        /\ pc # "error"
        /\ pc \in ParsedPcs =>
            /\ Len(roots) = 2
            /\ tree[roots[1] + 1].kind = "Empty"
            /\ tree[roots[2] + 1].kind = "List"

\* C3 as amended: parse on ()a never returns: it records at most one root,
\* the handle 0 of an Empty node, nothing reaches standard output, and a
\* run that ends in an error ends in expr's "expected (" with exactly that
\* root recorded.
C3_EmptyThenError ==
    file = SampleEmptyThenAtom =>
        /\ pc \notin ParsedPcs
        /\ stdout = <<>>
        /\ roots \in {<<>>, <<0>>}
        /\ roots = <<0>> => tree = <<EmptyNode>>
        /\ pc = "error" => err.msg = ExpectedOpen /\ roots = <<0>>

\* C3's case: the run on ()a has ended in an error after the Empty root.
C3_Witness ==
    file = SampleEmptyThenAtom /\ pc = "error" /\ roots = <<0>>

\* What of an arena and its roots does not depend on where in the source a
\* token stood.
Shape(t, r) ==
    [nodes |-> [i \in 1..Len(t) |->
                  [kind |-> t[i].kind, type |-> t[i].tok.type,
                   text |-> Text(t[i].tok), children |-> t[i].children]],
     roots |-> r]

\* C4: two well-formed inputs that differ only in their whitespace runs (the
\* two files of a run of the program on a pair of VariantPairs) parse
\* without an error to the same arena and roots: as many nodes, the same
\* kind, token text and child handles at every index, the same roots.
C4_WhitespaceInsensitive ==
    history # <<>> =>
        /\ history[1].pc = "done"
        /\ pc \in Terminal => pc = "done"
        /\ pc \in ParsedPcs =>
            Shape(tree, roots) = Shape(history[1].tree, history[1].roots)

\* C4's case: both inputs of a pair are parsed and rendered, and they differ.
C4_Witness ==
    /\ history # <<>>
    /\ pc = "done"
    /\ file # history[1].file
    /\ Len(file) > Len(history[1].file) + 2
    /\ Len(tree) >= 4

\* The handles of the nodes other than Empty reachable from h, in pre-order,
\* children in source order.
RECURSIVE PreOrderAll(_, _)
RECURSIVE PreOrder(_, _)
PreOrder(t, h) ==
    IF t[h + 1].kind = "Empty" THEN <<>>
    ELSE <<h>> \o PreOrderAll(t, t[h + 1].children)
PreOrderAll(t, hs) ==
    IF hs = <<>> THEN <<>> ELSE PreOrder(t, Head(hs)) \o PreOrderAll(t, Tail(hs))

ParentOf(t, h) ==
    CHOOSE p \in 0..(Len(t) - 1) : \E k \in 1..Len(t[p + 1].children) :
        t[p + 1].children[k] = h

IsNodeDecl(s) == s.stmt = "node"
IsEdgeDecl(s) == s.stmt = "edge"

\* The statements of the k-th cluster of o: those between the k-th
\* "subgraph" line and the next closing line.
Opens(o) == {i \in 1..Len(o) : o[i].stmt = "subgraph"}
OpenAt(o, k) == CHOOSE i \in Opens(o) : Cardinality({j \in Opens(o) : j <= i}) = k
CloseAfter(o, i) == CHOOSE c \in (i + 1)..Len(o) :
    o[c].stmt = "}" /\ \A j \in (i + 1)..(c - 1) : o[j].stmt # "}"
Cluster(o, k) == SubSeq(o, OpenAt(o, k) + 1, CloseAfter(o, OpenAt(o, k)) - 1)

ClusterRenders(t, root, c) ==
    LET order == PreOrder(t, root)
        decls == SelectSeq(c, IsNodeDecl)
        edges == SelectSeq(c, IsEdgeDecl)
        IdOf(h) == decls[CHOOSE i \in 1..Len(order) : order[i] = h].id
    IN  /\ Len(decls) = Len(order)
        /\ \A i \in 1..Len(order) : decls[i].label = Text(t[order[i] + 1].tok)
        /\ Len(edges) = IF order = <<>> THEN 0 ELSE Len(order) - 1
        /\ \A i \in 1..Len(edges) :
            edges[i] = EdgeDecl(IdOf(ParentOf(t, order[i + 1])), IdOf(order[i + 1]))
        /\ Len(c) = Len(decls) + Len(edges)

\* C5: the output has one cluster per root, in root order; a cluster holds
\* one node declaration for each List, Identifer and String node reachable
\* from its root (none for an Empty), in pre-order, and for each but the
\* first an edge from its parent's id to its own, and nothing else; for
\* (add (mul 2 3) "x") that is one cluster of 5 declarations and 4 edges.
C5_ClusterPerRoot ==
    pc = "done" =>
        /\ Cardinality(Opens(stdout)) = Len(roots)
        /\ \A k \in 1..Len(roots) :
            /\ stdout[OpenAt(stdout, k)] = ClusterOpen(k - 1)
            /\ ClusterRenders(tree, roots[k], Cluster(stdout, k))
        /\ file = SampleAdd =>
            /\ Len(roots) = 1
            /\ Len(SelectSeq(Cluster(stdout, 1), IsNodeDecl)) = 5
            /\ Len(SelectSeq(Cluster(stdout, 1), IsEdgeDecl)) = 4

\* C5's case: (add (mul 2 3) "x") is rendered.
C5_Witness == file = SampleAdd /\ pc = "done" /\ Len(stdout) = 13

Decls(o) == SelectSeq(o, IsNodeDecl)

IdsUnique ==
    pc \in ParsedPcs =>
        /\ \A i \in 1..Len(Decls(out)) : Decls(out)[i].id < node_counter
        /\ \A i \in 1..(Len(Decls(out)) - 1) : Decls(out)[i].id < Decls(out)[i + 1].id
        /\ \A i \in 1..Len(out) :
            /\ IsEdgeDecl(out[i]) => out[i].from # out[i].id
            /\ IsNodeDecl(out[i]) /\ out[i - 1].stmt # "subgraph" =>
                /\ i < Len(out)
                /\ IsEdgeDecl(out[i + 1])
                /\ out[i + 1].id = out[i].id

\* C6: within one call of render the node-id counter never decreases, the
\* ids of the node declarations grow strictly in the order they are
\* emitted and stay below the counter (so no two are equal), and every node
\* declaration but the first of its cluster is followed by its edge, whose
\* ends differ.
C6_IdsIncrease ==
    /\ []IdsUnique
    /\ [][(pc \in RenderPcs /\ pc # "render") => (node_counter' >= node_counter)]_vars

\* C6's case: a forest with an Empty root and an Empty child is rendered.
C6_Witness ==
    /\ pc = "done"
    /\ Len(Decls(out)) >= 2
    /\ \E i \in 1..Len(roots) : tree[roots[i] + 1].kind = "Empty"
    /\ \E p \in 1..Len(tree) : \E k \in 1..Len(tree[p].children) :
        tree[tree[p].children[k] + 1].kind = "Empty"

Handles(t) == 0..(Len(t) - 1)

ArenaIsForest ==
    /\ \A i \in 1..Len(roots) : roots[i] \in Handles(tree)
    /\ \A i \in 1..Len(stack) : \A k \in 1..Len(stack[i].children) :
        stack[i].children[k] \in Handles(tree)
    /\ \A p \in Handles(tree) :
        /\ tree[p + 1].kind # "List" => tree[p + 1].children = <<>>
        /\ \A k \in 1..Len(tree[p + 1].children) :
            /\ tree[p + 1].children[k] \in Handles(tree)
            /\ tree[p + 1].children[k] < p
            /\ \A q \in Handles(tree) : \A j \in 1..Len(tree[q + 1].children) :
                tree[q + 1].children[j] = tree[p + 1].children[k] => q = p /\ j = k
            /\ \A i \in 1..Len(roots) : roots[i] # tree[p + 1].children[k]
    /\ \A i \in 1..Len(roots) : \A j \in 1..Len(roots) : roots[i] = roots[j] => i = j

ArenaGrows ==
    \/ pc' = "lexer"
    \/ tree' = tree
    \/ /\ Len(tree') = Len(tree) + 1
       /\ SubSeq(tree', 1, Len(tree)) = tree
       /\ \/ roots' = Append(roots, Len(tree))
          \/ /\ stack' # <<>>
             /\ LET c == stack'[Len(stack')].children
                IN  c # <<>> /\ c[Len(c)] = Len(tree)

\* C7: the arena only grows, one node at a time, and the handle given out
\* for a node is its index; every handle in a List's children, in the
\* children an expr has collected so far and in roots is the index of a
\* node in the arena; a List's children are smaller than its own index;
\* no handle is a child twice, or a child and a root, or a root twice.
C7_ArenaForest == []ArenaIsForest /\ [][ArenaGrows]_vars

\* C7's case: a forest of two roots and nested Lists is parsed.
C7_Witness ==
    /\ pc = "done"
    /\ Len(roots) >= 2
    /\ \E p \in Handles(tree) : Len(tree[p + 1].children) >= 2
    /\ \E p \in Handles(tree) : \E k \in 1..Len(tree[p + 1].children) :
        tree[tree[p + 1].children[k] + 1].kind = "List"

\* The line and column of offset n counted from the start of the source.
NewlinesBefore(f, n) == {i \in 1..n : f[i] = ChNewline}

LineOf(f, n) == 1 + Cardinality(NewlinesBefore(f, n))

ColumnOf(f, n) ==
    LET last == IF NewlinesBefore(f, n) = {} THEN 0
                ELSE CHOOSE i \in NewlinesBefore(f, n) :
                        \A j \in NewlinesBefore(f, n) : j <= i
    IN  1 + (n - last)

\* C8: position(start, start + n) is 1:1 for n = 0 and else the line is 1
\* plus the newlines among the first n bytes and the column 1 plus the
\* bytes between the last of them (or the start) and the cursor.
C8_PositionCountsFromStart ==
    pc = "lexer" =>
        \A n \in 0..Len(file) :
            /\ position(file, wild, n).line = LineOf(file, n)
            /\ position(file, wild, n).column = ColumnOf(file, n)

\* C9: parse ends by returning roots or in an error, and never otherwise;
\* the lookahead is never TOKEN_NONE once the Lexer is built, so that in
\* expr's loop it is one a branch of the loop consumes.
C9_ParseTerminates ==
    /\ pc # "crash"
    /\ pc \notin {"start", "lexer"} => lookahead.type # TOKEN_NONE
    /\ pc = "expr_loop" =>
        lookahead.type \in {TOKEN_LPAREN, TOKEN_IDENTIFIER, TOKEN_STRING,
                            TOKEN_RPAREN, TOKEN_EOF}

\* C10: the cursor stays between the start of the source and its
\* terminator, and next_token reads no byte outside these.
C10_ReadsWithinBuffer ==
    pc \notin {"start", "lexer"} =>
        /\ 0 <= str /\ str <= Terminator(file)
        /\ 0 <= lo /\ hi <= Terminator(file)

=============================================================================
